---------------------------- MODULE Spec2Model ----------------------------
(***************************************************************************)
(* A model of safe_sql.py: builders that render to a pair                  *)
(* (sql template, list of bound parameters).                               *)
(*                                                                         *)
(* A Python str is a sequence of one-character strings.  A Python value    *)
(* whose class matters to an isinstance test is a record with a cls field. *)
(***************************************************************************)
EXTENDS Integers, Sequences, FiniteSets, TLC

VARIABLES
    args,   \* the arguments of the constructor call being made
    obj,    \* the object the last constructor call returned, or None
    out     \* the outcome of the last constructor or build() call

vars == <<args, obj, out>>

---------------------------------------------------------------------------
(* Python values *)

PyStr(s)   == [cls |-> "str", v |-> s]
PyInt(n)   == [cls |-> "int", v |-> n]
PyBool(b)  == [cls |-> "bool", v |-> b]
PyFloat(n) == [cls |-> "float", v |-> n]
None       == [cls |-> "NoneType"]

\* class bool(int): isinstance(True, int) is True
IsInstanceInt(x) == x.cls \in {"int", "bool"}
IsInstanceStr(x) == x.cls = "str"

BuilderClasses ==
    {"SafeSql", "SafeSqlLikePattern", "SafeSqlInt", "SafeSqlParam",
     "SafeSqlWhitelisted", "SafeSqlUpsertRows"}
IsInstanceSafeSqlBuilder(x) == x.cls \in BuilderClasses

\* collections.abc.Sequence: list, tuple and str are registered, set is not
IsInstanceSequence(x) == x.cls \in {"list", "tuple", "str"}

---------------------------------------------------------------------------
(* str operations *)

Whitespace == {" ", "\t", "\n", "\r"}

RECURSIVE LStrip(_)
LStrip(s) == IF s # <<>> /\ Head(s) \in Whitespace THEN LStrip(Tail(s)) ELSE s

RECURSIVE RStrip(_)
RStrip(s) ==
    IF s # <<>> /\ s[Len(s)] \in Whitespace THEN RStrip(SubSeq(s, 1, Len(s) - 1)) ELSE s

\* str.strip()
Strip(s) == RStrip(LStrip(s))

\* sep.join(items); the items are taken by halves to keep the recursion shallow
RECURSIVE Join(_, _)
Join(sep, items) ==
    IF items = <<>> THEN <<>>
    ELSE IF Len(items) = 1 THEN items[1]
    ELSE LET half == Len(items) \div 2
         IN  Join(sep, SubSeq(items, 1, half)) \o sep
             \o Join(sep, SubSeq(items, half + 1, Len(items)))

\* the items of seq mapped by Op, in order
Map(Op(_), seq) == [i \in 1..Len(seq) |-> Op(seq[i])]

Digit(d) ==
    CASE d = 0 -> "0" [] d = 1 -> "1" [] d = 2 -> "2" [] d = 3 -> "3"
      [] d = 4 -> "4" [] d = 5 -> "5" [] d = 6 -> "6" [] d = 7 -> "7"
      [] d = 8 -> "8" [] d = 9 -> "9"

RECURSIVE Digits(_)
Digits(n) == IF n < 10 THEN <<Digit(n)>> ELSE Digits(n \div 10) \o <<Digit(n % 10)>>

TrueStr == <<"T","r","u","e">>
FalseStr == <<"F","a","l","s","e">>

\* str(value) of an int or a bool
StrOf(x) ==
    CASE x.cls = "bool" -> (IF x.v THEN TrueStr ELSE FalseStr)
      [] x.cls = "int" -> (IF x.v < 0 THEN <<"-">> \o Digits(-x.v) ELSE Digits(x.v))

---------------------------------------------------------------------------
(* outcomes *)

NoOut == [op |-> "none"]
Raised(op, exc) == [op |-> op, status |-> exc]
Constructed == [op |-> "init", status |-> "ok"]
Built(r) == [op |-> "build", status |-> "ok", sql |-> r.sql, params |-> r.params]

Rendered(sql, params) == [sql |-> sql, params |-> params]

PYODBC_PARAM_PLACEHOLDER == <<"?">>
MSSQL_MAX_PARAMS == 2100

---------------------------------------------------------------------------
(* SafeSqlWildcard and SafeSqlLikePattern *)

PERCENT    == [cls |-> "SafeSqlWildcard", value |-> "%"]
UNDERSCORE == [cls |-> "SafeSqlWildcard", value |-> "_"]

ESCAPE_CHAR == "["

\* SafeSqlLikePattern.__init__
SafeSqlLikePattern_init(parts) ==
    IF parts = <<>> THEN [status |-> "TypeError"]
    ELSE IF \E i \in 1..Len(parts) : parts[i].cls \notin {"str", "SafeSqlWildcard"}
    THEN [status |-> "TypeError"]
    ELSE [status |-> "ok", obj |-> [cls |-> "SafeSqlLikePattern", parts |-> parts]]

\* EscapeLoop with the escape character itself left out of the escaped set
RECURSIVE EscapeLoopWildcardsOnly(_)
EscapeLoopWildcardsOnly(p) ==
    IF p = <<>> THEN [escaped |-> <<>>, executed_escapes |-> FALSE]
    ELSE LET before == EscapeLoopWildcardsOnly(SubSeq(p, 1, Len(p) - 1))
             ch == p[Len(p)]
         IN  IF ch \in {"%", "_"}
             THEN [escaped |-> before.escaped \o <<ESCAPE_CHAR, ch>>,
                   executed_escapes |-> TRUE]
             ELSE [escaped |-> before.escaped \o <<ch>>,
                   executed_escapes |-> before.executed_escapes]

\* the loop over the characters of a str part: (escaped, executed_escapes)
RECURSIVE EscapeLoop(_)
EscapeLoop(p) ==
    IF p = <<>> THEN [escaped |-> <<>>, executed_escapes |-> FALSE]
    ELSE LET before == EscapeLoop(SubSeq(p, 1, Len(p) - 1))
             ch == p[Len(p)]
         IN  IF ch \in {ESCAPE_CHAR, "%", "_"}
             THEN [escaped |-> before.escaped \o <<ESCAPE_CHAR, ch>>,
                   executed_escapes |-> TRUE]
             ELSE [escaped |-> before.escaped \o <<ch>>,
                   executed_escapes |-> before.executed_escapes]

process_part(p) ==
    IF IsInstanceStr(p)
    THEN EscapeLoop(p.v)
    ELSE [escaped |-> <<p.value>>, executed_escapes |-> FALSE]

\* PatternLoop keeping only the last part's flag: any_escape_needed = escape_needed
RECURSIVE PatternLoopLastFlag(_)
PatternLoopLastFlag(parts) ==
    IF parts = <<>> THEN [param |-> <<>>, any_escape_needed |-> FALSE]
    ELSE LET before == PatternLoopLastFlag(SubSeq(parts, 1, Len(parts) - 1))
             part == process_part(parts[Len(parts)])
         IN  [param |-> before.param \o part.escaped,
              any_escape_needed |-> part.executed_escapes]

\* the loop over self.parts: (param, any_escape_needed)
RECURSIVE PatternLoop(_)
PatternLoop(parts) ==
    IF parts = <<>> THEN [param |-> <<>>, any_escape_needed |-> FALSE]
    ELSE LET before == PatternLoop(SubSeq(parts, 1, Len(parts) - 1))
             part == process_part(parts[Len(parts)])
         IN  [param |-> before.param \o part.escaped,
              any_escape_needed |-> before.any_escape_needed \/ part.executed_escapes]

escape_clause_if_needed(any_escape_needed) ==
    IF any_escape_needed
    THEN <<" ","E","S","C","A","P","E"," ","'">> \o <<ESCAPE_CHAR>> \o <<"'">>
    ELSE <<>>

SafeSqlLikePattern_build(self) ==
    LET loop == PatternLoop(self.parts)
    IN  Rendered(PYODBC_PARAM_PLACEHOLDER \o escape_clause_if_needed(loop.any_escape_needed),
                 <<PyStr(loop.param)>>)

---------------------------------------------------------------------------
(* SafeSqlInt, SafeSqlParam, SafeSqlWhitelisted *)

SafeSqlInt_init(value) ==
    IF ~IsInstanceInt(value) THEN [status |-> "TypeError"]
    ELSE [status |-> "ok", obj |-> [cls |-> "SafeSqlInt", value |-> value]]

SafeSqlInt_build(self) == Rendered(StrOf(self.value), <<>>)

SafeSqlParam_init(value) ==
    [status |-> "ok", obj |-> [cls |-> "SafeSqlParam", value |-> value]]

SafeSqlParam_build(self) == Rendered(PYODBC_PARAM_PLACEHOLDER, <<self.value>>)

\* whitelist is a record [cls, items]: items in iteration order
Contains(whitelist, string) ==
    \E i \in 1..Len(whitelist.items) : whitelist.items[i] = string

\* SafeSqlWhitelisted.__init__ without its membership test
SafeSqlWhitelisted_initUnchecked(string, whitelist) ==
    IF ~IsInstanceStr(string) THEN [status |-> "TypeError"]
    ELSE IF whitelist.cls = "str" \/ ~IsInstanceSequence(whitelist)
    THEN [status |-> "TypeError"]
    ELSE IF ~\A i \in 1..Len(whitelist.items) : IsInstanceStr(whitelist.items[i])
    THEN [status |-> "TypeError"]
    ELSE [status |-> "ok",
          obj |-> [cls |-> "SafeSqlWhitelisted", string |-> string.v,
                   whitelist |-> {whitelist.items[i] : i \in 1..Len(whitelist.items)}]]

SafeSqlWhitelisted_init(string, whitelist) ==
    IF ~IsInstanceStr(string) THEN [status |-> "TypeError"]
    ELSE IF whitelist.cls = "str" \/ ~IsInstanceSequence(whitelist)
    THEN [status |-> "TypeError"]
    ELSE IF ~\A i \in 1..Len(whitelist.items) : IsInstanceStr(whitelist.items[i])
    THEN [status |-> "TypeError"]
    ELSE IF ~Contains(whitelist, string) THEN [status |-> "ValueError"]
    ELSE [status |-> "ok",
          obj |-> [cls |-> "SafeSqlWhitelisted", string |-> string.v,
                   whitelist |-> {whitelist.items[i] : i \in 1..Len(whitelist.items)}]]

SafeSqlWhitelisted_build(self) == Rendered(self.string, <<>>)

---------------------------------------------------------------------------
(* SafeSqlUpsertRows *)

ToSet(seq) == {seq[i] : i \in 1..Len(seq)}

\* validate_inputs testing on_columns for repetitions twice, columns never
validate_inputsOnColumnsTwice(self) ==
    IF self.rows = <<>> THEN "ValueError"
    ELSE LET row_lengths == {Len(self.rows[i]) : i \in 1..Len(self.rows)}
             row_length == CHOOSE n \in row_lengths : TRUE
         IN  IF Cardinality(row_lengths) # 1 \/ row_length = 0 THEN "ValueError"
             ELSE IF row_length # Len(self.columns) THEN "ValueError"
             ELSE IF Cardinality(ToSet(self.on_columns)) < Len(self.on_columns)
             THEN "ValueError"
             ELSE IF ~(ToSet(self.on_columns) \subseteq ToSet(self.columns))
             THEN "ValueError"
             ELSE "ok"

\* the model validator, run on the fields of the new object
validate_inputs(self) ==
    IF self.rows = <<>> THEN "ValueError"
    ELSE LET row_lengths == {Len(self.rows[i]) : i \in 1..Len(self.rows)}
             row_length == CHOOSE n \in row_lengths : TRUE
         IN  IF Cardinality(row_lengths) # 1 \/ row_length = 0 THEN "ValueError"
             ELSE IF row_length # Len(self.columns) THEN "ValueError"
             ELSE IF Cardinality(ToSet(self.on_columns)) < Len(self.on_columns)
             THEN "ValueError"
             ELSE IF Cardinality(ToSet(self.columns)) < Len(self.columns)
             THEN "ValueError"
             ELSE IF ~(ToSet(self.on_columns) \subseteq ToSet(self.columns))
             THEN "ValueError"
             ELSE "ok"

SafeSqlUpsertRows_init(target_table, on_columns, columns, rows) ==
    LET self == [cls |-> "SafeSqlUpsertRows", target_table |-> target_table,
                 on_columns |-> on_columns, columns |-> columns, rows |-> rows]
        checked == validate_inputs(self)
    IN  IF checked = "ok" THEN [status |-> "ok", obj |-> self]
        ELSE [status |-> checked]

\* a dict is the sequence of its (key, value) items in insertion order
Keys(d)   == [i \in 1..Len(d) |-> d[i][1]]
Values(d) == [i \in 1..Len(d) |-> d[i][2]]

from_row_dicts(target_table, on_columns, row_dicts) ==
    LET columns == IF row_dicts # <<>> THEN Keys(row_dicts[1]) ELSE <<>>
        rows == [i \in 1..Len(row_dicts) |-> Values(row_dicts[i])]
    IN  SafeSqlUpsertRows_init(target_table, on_columns, columns, rows)

\* [c for c in self.columns if c not in self.on_columns]
update_columns(self) ==
    SelectSeq(self.columns, LAMBDA c : c \notin ToSet(self.on_columns))

\* item repeated n times, as the generator expressions over range(n) yield it
Repeat(item, n) == [i \in 1..n |-> item]

value_row(self) ==
    <<"(">> \o Join(<<",">>, Repeat(PYODBC_PARAM_PLACEHOLDER, Len(self.columns))) \o <<")">>

value_rows(self) == Join(<<",">>, Repeat(value_row(self), Len(self.rows)))

column_list(self) == Join(<<",">>, self.columns)

TargetEqSource(c) ==
    <<"t","a","r","g","e","t",".">> \o c \o <<" ","="," ","s","o","u","r","c","e",".">> \o c

on_condition(self) ==
    Join(<<" ","A","N","D"," ">>, Map(TargetEqSource, self.on_columns))

update_command(self) ==
    Join(<<","," ">>, Map(TargetEqSource, update_columns(self)))

SourceDot(c) == <<"s","o","u","r","c","e",".">> \o c

insert_column_list(self) == Join(<<",">>, Map(SourceDot, self.columns))

\* the text of the statement up to the VALUES list
MergeHead(self) ==
    <<"\n","M","E","R","G","E"," ","I","N","T","O"," ">> \o self.target_table
    \o <<" ","W","I","T","H"," ","(","H","O","L","D","L","O","C","K",")"," ","A","S"," ",
         "t","a","r","g","e","t","\n","U","S","I","N","G"," ","(","\n"," "," "," "," ",
         "V","A","L","U","E","S","\n"," "," "," "," "," "," "," "," ">>

\* the text of the statement after the VALUES list
MergeTail(self) ==
    <<"\n",")"," ","A","S"," ","s","o","u","r","c","e"," ","(">> \o column_list(self)
    \o <<")","\n"," "," "," "," ","O","N"," ">> \o on_condition(self)
    \o <<"\n","W","H","E","N"," ","M","A","T","C","H","E","D"," ","T","H","E","N","\n",
         " "," "," "," ","U","P","D","A","T","E"," ","S","E","T"," ","\n",
         " "," "," "," "," "," "," "," ">> \o update_command(self)
    \o <<"\n","W","H","E","N"," ","N","O","T"," ","M","A","T","C","H","E","D"," ","B","Y",
         " ","T","A","R","G","E","T"," ","T","H","E","N","\n"," "," "," "," ",
         "I","N","S","E","R","T"," ","(">> \o column_list(self)
    \o <<")","\n"," "," "," "," ","V","A","L","U","E","S"," ","(">>
    \o insert_column_list(self) \o <<")",";","\n">>

\* the rows chained last row first
RECURSIVE chain_last_first(_)
chain_last_first(rows) ==
    IF rows = <<>> THEN <<>>
    ELSE IF Len(rows) = 1 THEN rows[1]
    ELSE LET half == Len(rows) \div 2
         IN  chain_last_first(SubSeq(rows, half + 1, Len(rows)))
             \o chain_last_first(SubSeq(rows, 1, half))

\* list(chain.from_iterable(self.rows)); the rows are taken by halves to keep
\* the recursion shallow
RECURSIVE chain_from_iterable(_)
chain_from_iterable(rows) ==
    IF rows = <<>> THEN <<>>
    ELSE IF Len(rows) = 1 THEN rows[1]
    ELSE LET half == Len(rows) \div 2
         IN  chain_from_iterable(SubSeq(rows, 1, half))
             \o chain_from_iterable(SubSeq(rows, half + 1, Len(rows)))

SafeSqlUpsertRows_build(self) ==
    Rendered(MergeHead(self) \o value_rows(self) \o MergeTail(self),
             chain_from_iterable(self.rows))

---------------------------------------------------------------------------
(* SafeSql *)

SafeSql_init(parts) ==
    IF \E i \in 1..Len(parts) :
          ~(IsInstanceSafeSqlBuilder(parts[i]) \/ IsInstanceStr(parts[i]))
    THEN [status |-> "TypeError"]
    ELSE [status |-> "ok", obj |-> [cls |-> "SafeSql", parts |-> parts]]

\* safely_concatenate without its test for an empty left side
safely_concatenateAlwaysSpace(left, right) == left \o <<" ">> \o Strip(right)

safely_concatenate(left, right) ==
    IF left = <<>> THEN Strip(right)
    ELSE left \o <<" ">> \o Strip(right)

RECURSIVE SafeSql_build(_)

\* part._build(), by the class of part
Dispatch_build(part) ==
    CASE part.cls = "SafeSql"            -> SafeSql_build(part)
      [] part.cls = "SafeSqlLikePattern" -> SafeSqlLikePattern_build(part)
      [] part.cls = "SafeSqlInt"         -> SafeSqlInt_build(part)
      [] part.cls = "SafeSqlParam"       -> SafeSqlParam_build(part)
      [] part.cls = "SafeSqlWhitelisted" -> SafeSqlWhitelisted_build(part)
      [] part.cls = "SafeSqlUpsertRows"  -> SafeSqlUpsertRows_build(part)

\* what one part adds: (added_sql, added_params)
Added(part) ==
    IF IsInstanceSafeSqlBuilder(part) THEN Dispatch_build(part)
    ELSE Rendered(part.v, <<>>)

\* SafeSqlLoop putting the added parameters in front: params = added_params + params
RECURSIVE SafeSqlLoopPrepending(_, _)
SafeSqlLoopPrepending(parts, n) ==
    IF n = 0 THEN Rendered(<<>>, <<>>)
    ELSE LET before == SafeSqlLoopPrepending(parts, n - 1)
             added == Added(parts[n])
         IN  Rendered(safely_concatenate(before.sql, added.sql),
                      added.params \o before.params)

\* the loop over self.parts, after its first n parts
RECURSIVE SafeSqlLoop(_, _)
SafeSqlLoop(parts, n) ==
    IF n = 0 THEN Rendered(<<>>, <<>>)
    ELSE LET before == SafeSqlLoop(parts, n - 1)
             added == Added(parts[n])
         IN  Rendered(safely_concatenate(before.sql, added.sql),
                      before.params \o added.params)

SafeSql_build(self) == SafeSqlLoop(self.parts, Len(self.parts))

---------------------------------------------------------------------------
(* SafeSqlBuilder.build *)

\* build refusing MSSQL_MAX_PARAMS parameters too: >= for >
buildBelowMax(self) ==
    LET r == Dispatch_build(self)
    IN  IF Len(r.params) >= MSSQL_MAX_PARAMS THEN Raised("build", "ValueError")
        ELSE Built(r)

build(self) ==
    LET r == Dispatch_build(self)
    IN  IF Len(r.params) > MSSQL_MAX_PARAMS THEN Raised("build", "ValueError")
        ELSE Built(r)

---------------------------------------------------------------------------
(* Calls shared by the specifications *)

\* the state after a constructor call that returned r
AfterInit(r) ==
    /\ obj' = IF r.status = "ok" THEN r.obj ELSE None
    /\ out' = IF r.status = "ok" THEN Constructed ELSE Raised("init", r.status)

\* the builders and strs of a parts list, those of its nested SafeSql included
RECURSIVE Nodes(_)
Nodes(parts) ==
    IF parts = <<>> THEN 0
    ELSE Nodes(Tail(parts))
         + (IF Head(parts).cls = "SafeSql" THEN 1 + Nodes(Head(parts).parts) ELSE 1)

\* one more argument for the SafeSql being written
Extend(part, max) ==
    /\ Nodes(args) < max
    /\ args' = Append(args, part)
    /\ obj' = None
    /\ out' = NoOut

\* the argument is the object a constructor call returned, if it returned one
ExtendWith(r, max) ==
    IF r.status = "ok" THEN Extend(r.obj, max)
    ELSE /\ Nodes(args) < max
         /\ obj' = None
         /\ out' = Raised("init", r.status)
         /\ UNCHANGED args

\* SafeSql(*args)
Compose ==
    /\ obj = None
    /\ AfterInit(SafeSql_init(args))
    /\ UNCHANGED args

\* the last k arguments become one: a SafeSql of them
Nest(k, max) ==
    /\ Nodes(args) < max
    /\ LET n == Len(args)
           r == SafeSql_init(SubSeq(args, n - k + 1, n))
       IN  /\ args' = IF r.status = "ok" THEN Append(SubSeq(args, 1, n - k), r.obj)
                      ELSE args
           /\ out' = IF r.status = "ok" THEN NoOut ELSE Raised("init", r.status)
    /\ obj' = None

BuildSafeSql ==
    /\ obj.cls = "SafeSql"
    /\ out' = build(obj)
    /\ UNCHANGED <<args, obj>>

CountOf(ch, s) == Cardinality({i \in 1..Len(s) : s[i] = ch})

\* all str values of at most n characters of alphabet
StrsUpTo(alphabet, n) == UNION {[1..k -> alphabet] : k \in 0..n}

---------------------------------------------------------------------------
(* SpecLike: the SafeSqlLikePattern constructor and build *)

MaxLikeParts == 2
MaxLikeChars == 3

LikeAlphabet == {"a", "%", "_", "["}

\* the characters of the str parts of a pattern argument list
RECURSIVE PatternChars(_)
PatternChars(parts) ==
    IF parts = <<>> THEN 0
    ELSE PatternChars(Tail(parts))
         + (IF IsInstanceStr(Head(parts)) THEN Len(Head(parts).v) ELSE 0)

LikePartsUpTo(c) ==
    {PERCENT, UNDERSCORE, PyInt(123)} \cup {PyStr(s) : s \in StrsUpTo(LikeAlphabet, c)}

\* argument lists of at most n parts holding at most c characters
RECURSIVE PatternArgs(_, _)
PatternArgs(n, c) ==
    IF n = 0 THEN {<<>>}
    ELSE LET shorter == PatternArgs(n - 1, c)
         IN  shorter \cup UNION {{Append(a, p) : p \in LikePartsUpTo(c - PatternChars(a))} :
                                 a \in shorter}

LikeInit ==
    /\ args \in PatternArgs(MaxLikeParts, MaxLikeChars)
    /\ obj = None
    /\ out = NoOut

LikeConstruct ==
    /\ out = NoOut
    /\ AfterInit(SafeSqlLikePattern_init(args))
    /\ UNCHANGED args

LikeBuild ==
    /\ obj.cls = "SafeSqlLikePattern"
    /\ out' = build(obj)
    /\ UNCHANGED <<args, obj>>

LikeNext == LikeConstruct \/ LikeBuild

SpecLike == LikeInit /\ [][LikeNext]_vars

LikeBuilt == obj.cls = "SafeSqlLikePattern" /\ out.op = "build" /\ out.status = "ok"

Special == {"[", "%", "_"}

\* what a LIKE with ESCAPE '[' reads in a pattern: an escaped character is a
\* literal, a bare % or _ is a wildcard
Literal(ch)  == <<"literal", ch>>
Wildcard(ch) == <<"wildcard", ch>>

RECURSIVE ReadPattern(_)
ReadPattern(s) ==
    IF s = <<>> THEN <<>>
    ELSE IF s[1] = "[" THEN
        IF Len(s) = 1 THEN <<<<"dangling escape">>>>
        ELSE <<Literal(s[2])>> \o ReadPattern(SubSeq(s, 3, Len(s)))
    ELSE IF s[1] \in {"%", "_"} THEN <<Wildcard(s[1])>> \o ReadPattern(Tail(s))
    ELSE <<Literal(s[1])>> \o ReadPattern(Tail(s))

\* what the developer wrote: the characters of str parts are literals, the
\* wildcard tokens are wildcards
RECURSIVE Intended(_)
Intended(parts) ==
    IF parts = <<>> THEN <<>>
    ELSE (IF IsInstanceStr(Head(parts))
          THEN [i \in 1..Len(Head(parts).v) |-> Literal(Head(parts).v[i])]
          ELSE <<Wildcard(Head(parts).value)>>)
         \o Intended(Tail(parts))

SpecialCount(parts) ==
    Cardinality({<<i, j>> \in (1..Len(parts)) \X (1..MaxLikeChars + 1) :
                    /\ IsInstanceStr(parts[i])
                    /\ j <= Len(parts[i].v)
                    /\ parts[i].v[j] \in Special})

\* C3: the one bound parameter of a pattern is its elements in order, each
\* '[', '%' and '_' of a str element prefixed by '[' exactly once, every other
\* character verbatim, each wildcard token its bare character: it reads back
\* as what was written, and is longer than it by one per escaped character.
C3_ParamEscaped ==
    LikeBuilt =>
        /\ Len(out.params) = 1
        /\ out.params[1].cls = "str"
        /\ ReadPattern(out.params[1].v) = Intended(obj.parts)
        /\ Len(out.params[1].v) = Len(Intended(obj.parts)) + SpecialCount(obj.parts)

C3_Witness ==
    /\ LikeBuilt
    /\ \E i, j \in 1..Len(obj.parts) :
          /\ obj.parts[i] = PyStr(<<"%", "[">>)
          /\ obj.parts[j] = UNDERSCORE
    /\ Len(out.params[1].v) = 5

EscapeClauseText == <<"?"," ","E","S","C","A","P","E"," ","'","[","'">>

\* C4: the template of a pattern is "? ESCAPE '['" exactly when a character
\* of a str element was escaped, and "?" otherwise.
C4_EscapeClauseIff ==
    LikeBuilt =>
        /\ out.sql = EscapeClauseText <=> SpecialCount(obj.parts) > 0
        /\ SpecialCount(obj.parts) = 0 => out.sql = <<"?">>

C4_Witness ==
    /\ LikeBuilt
    /\ out.sql = EscapeClauseText
    /\ obj.parts[Len(obj.parts)] = PERCENT

---------------------------------------------------------------------------
(* SpecInt: the SafeSqlInt constructor and build *)

MaxIntValue == 120

IntArgs ==
    {PyInt(n) : n \in -MaxIntValue..MaxIntValue}
    \cup {PyBool(TRUE), PyBool(FALSE), PyFloat(1), None,
          PyStr(<<"1">>), PyStr(<<"n","o","t","-","a","n","-","i","n","t">>)}

IntInit ==
    /\ args \in IntArgs
    /\ obj = None
    /\ out = NoOut

IntConstruct ==
    /\ out = NoOut
    /\ AfterInit(SafeSqlInt_init(args))
    /\ UNCHANGED args

IntBuild ==
    /\ obj.cls = "SafeSqlInt"
    /\ out' = build(obj)
    /\ UNCHANGED <<args, obj>>

IntNext == IntConstruct \/ IntBuild

SpecInt == IntInit /\ [][IntNext]_vars

DigitChars == {"0", "1", "2", "3", "4", "5", "6", "7", "8", "9"}

\* an optional sign followed by one or more digits
IsDecimal(s) ==
    LET body == IF s # <<>> /\ s[1] \in {"-", "+"} THEN Tail(s) ELSE s
    IN  body # <<>> /\ \A i \in 1..Len(body) : body[i] \in DigitChars

\* C10: SafeSqlInt accepts integer values only, rejects a value of any other
\* type with a TypeError, and renders an accepted value as an optional sign
\* followed by digits, with no parameters.
C10_OnlyIntsInDecimal ==
    /\ out.op = "init" =>
          /\ out.status = "ok" <=> args.cls = "int"
          /\ out.status # "ok" => out.status = "TypeError"
    /\ (obj.cls = "SafeSqlInt" /\ out.op = "build") =>
          /\ out.status = "ok"
          /\ IsDecimal(out.sql)
          /\ out.params = <<>>

---------------------------------------------------------------------------
(* SpecWhitelisted: the SafeSqlWhitelisted constructor and build *)

MaxWhitelist == 2

WhitelistNames == {<<"a">>, <<"b">>, <<"a", "b">>}

WhitelistItems == {PyStr(s) : s \in WhitelistNames} \cup {PyInt(1)}

ItemSeqs == UNION {[1..k -> WhitelistItems] : k \in 0..MaxWhitelist}

\* a list, a tuple or a set of items (a set holds an item once), or a str,
\* whose items are its characters
WhitelistValues ==
    {[cls |-> c, items |-> w] : c \in {"list", "tuple"}, w \in ItemSeqs}
    \cup {[cls |-> "set", items |-> w] :
            w \in {x \in ItemSeqs : \A i, j \in 1..Len(x) : x[i] = x[j] => i = j}}
    \cup {[cls |-> "str", items |-> [i \in 1..Len(s) |-> PyStr(<<s[i]>>)]] :
            s \in WhitelistNames}

WhitelistedInit ==
    /\ args \in [string : {PyStr(s) : s \in WhitelistNames} \cup {PyInt(123)},
                 whitelist : WhitelistValues]
    /\ obj = None
    /\ out = NoOut

WhitelistedConstruct ==
    /\ out = NoOut
    /\ AfterInit(SafeSqlWhitelisted_init(args.string, args.whitelist))
    /\ UNCHANGED args

WhitelistedBuild ==
    /\ obj.cls = "SafeSqlWhitelisted"
    /\ out' = build(obj)
    /\ UNCHANGED <<args, obj>>

WhitelistedNext == WhitelistedConstruct \/ WhitelistedBuild

SpecWhitelisted == WhitelistedInit /\ [][WhitelistedNext]_vars

\* a str and a collection of strs
StrAndStrs ==
    /\ args.string.cls = "str"
    /\ \A i \in 1..Len(args.whitelist.items) : args.whitelist.items[i].cls = "str"

IsMember == args.string \in ToSet(args.whitelist.items)

WhitelistedBuilt == obj.cls = "SafeSqlWhitelisted" /\ out.op = "build"

RendersTheString ==
    WhitelistedBuilt =>
        out.status = "ok" /\ out.sql = args.string.v /\ out.params = <<>>

\* C9 as stated: for every string and every collection of allowed strings,
\* construction fails when the string is not a member, and succeeds when it
\* is, build() then returning that string and no parameters.
C9_AnyCollection ==
    /\ (out.op = "init" /\ StrAndStrs /\ args.whitelist.cls # "str")
          => (out.status = "ok" <=> IsMember)
    /\ RendersTheString

\* C9 as amended: construction fails whenever the string is not a member; for
\* a list or tuple of strs it succeeds when the string is a member, and build()
\* returns that string and no parameters; a set and a bare str are rejected
\* with a TypeError, member or not.
C9_SequenceOfStrs ==
    /\ (out.op = "init" /\ ~IsMember) => out.status # "ok"
    /\ (out.op = "init" /\ StrAndStrs /\ args.whitelist.cls \in {"list", "tuple"})
          => (out.status = "ok" <=> IsMember)
    /\ (out.op = "init" /\ args.whitelist.cls \in {"set", "str"})
          => out.status = "TypeError"
    /\ RendersTheString

C9_Witness ==
    /\ WhitelistedBuilt
    /\ args.whitelist.cls = "tuple"
    /\ args.whitelist.items = <<PyStr(<<"b">>), PyStr(<<"a", "b">>)>>
    /\ out.sql = <<"a", "b">>

---------------------------------------------------------------------------
(* SpecUpsert: the SafeSqlUpsertRows constructor and build *)

MaxCols == 2
MaxRows == 2
MaxCells == 4

ColumnNames == {<<"a">>, <<"b">>}
CellValues == {1, 2}

ColumnLists == UNION {[1..k -> ColumnNames] : k \in 0..MaxCols}

RECURSIVE Cells(_)
Cells(rows) == IF rows = <<>> THEN 0 ELSE Len(Head(rows)) + Cells(Tail(rows))

Min(a, b) == IF a < b THEN a ELSE b

\* lists of at most n rows of at most MaxCols cells each, c cells in all
RECURSIVE RowLists(_, _)
RowLists(n, c) ==
    IF n = 0 THEN {<<>>}
    ELSE LET shorter == RowLists(n - 1, c)
         IN  shorter \cup
             UNION {{Append(rs, r) :
                       r \in UNION {[1..k -> CellValues] : k \in 0..Min(MaxCols, c - Cells(rs))}} :
                    rs \in shorter}

UpsertInit ==
    /\ args \in [target_table : {<<"t">>}, on_columns : ColumnLists,
                 columns : ColumnLists, rows : RowLists(MaxRows, MaxCells)]
    /\ obj = None
    /\ out = NoOut

UpsertConstruct ==
    /\ out = NoOut
    /\ AfterInit(SafeSqlUpsertRows_init(args.target_table, args.on_columns,
                                        args.columns, args.rows))
    /\ UNCHANGED args

UpsertBuild ==
    /\ obj.cls = "SafeSqlUpsertRows"
    /\ out' = build(obj)
    /\ UNCHANGED <<args, obj>>

UpsertNext == UpsertConstruct \/ UpsertBuild

SpecUpsert == UpsertInit /\ [][UpsertNext]_vars

UpsertBuilt == obj.cls = "SafeSqlUpsertRows" /\ out.op = "build" /\ out.status = "ok"

\* the text "(?,...,?),...,(?,...,?)" of R tuples of C placeholders, by position
PlaceholderTuples(R, C) ==
    [p \in 1..(R * (2 * C + 2) - 1) |->
        LET q == (p - 1) % (2 * C + 2)
        IN  IF q = 0 THEN "("
            ELSE IF q = 2 * C THEN ")"
            ELSE IF q = 2 * C + 1 THEN ","
            ELSE IF q % 2 = 1 THEN "?"
            ELSE ","]

\* C6: an upsert of R rows and C columns renders R comma-joined tuples of C
\* placeholders as its VALUES list, R*C placeholders in all, and its params
\* are the rows flattened row by row: row i, column j at index i*C + j.
C6_RowMajor ==
    UpsertBuilt =>
        LET R == Len(args.rows)
            C == Len(args.columns)
            from == Len(MergeHead(obj))
            list == PlaceholderTuples(R, C)
        IN  /\ SubSeq(out.sql, from + 1, from + Len(list)) = list
            /\ out.sql[from + Len(list) + 1] = "\n"
            /\ CountOf("?", out.sql) = R * C
            /\ Len(out.params) = R * C
            /\ \A i \in 0..(R - 1), j \in 0..(C - 1) :
                  out.params[i * C + j + 1] = args.rows[i + 1][j + 1]

C6_Witness ==
    /\ UpsertBuilt
    /\ args.rows = <<<<1, 2>>, <<2, 2>>>>
    /\ out.params = <<1, 2, 2, 2>>

HasRepetition(seq) == \E i, j \in 1..Len(seq) : i # j /\ seq[i] = seq[j]

\* the inputs the constructor must refuse
RowsEmpty        == args.rows = <<>>
RowsDiffer       == \E i, j \in 1..Len(args.rows) : Len(args.rows[i]) # Len(args.rows[j])
RowNotColumns    == \E i \in 1..Len(args.rows) : Len(args.rows[i]) # Len(args.columns)
ColumnsRepeat    == HasRepetition(args.columns)
OnColumnsRepeat  == HasRepetition(args.on_columns)
OnColumnsOutside ==
    \E i \in 1..Len(args.on_columns) :
        \A j \in 1..Len(args.columns) : args.on_columns[i] # args.columns[j]

Refused ==
    \/ RowsEmpty \/ RowsDiffer \/ RowNotColumns
    \/ ColumnsRepeat \/ OnColumnsRepeat \/ OnColumnsOutside

\* C7: the constructor raises a validation error and returns no object when
\* rows is empty, rows differ in length, a row is not as long as columns,
\* columns or on_columns repeats a name, or on_columns is not within columns;
\* it succeeds only when none of these holds.
C7_ValidationRefuses ==
    out.op = "init" =>
        /\ Refused => (out.status = "ValueError" /\ obj = None)
        /\ out.status = "ok" => (~Refused /\ obj.cls = "SafeSqlUpsertRows")

C7_Witness ==
    /\ out.op = "init"
    /\ out.status = "ValueError"
    /\ ColumnsRepeat
    /\ ~(RowsEmpty \/ RowsDiffer \/ RowNotColumns \/ OnColumnsRepeat \/ OnColumnsOutside)

---------------------------------------------------------------------------
(* SpecDicts: SafeSqlUpsertRows.from_row_dicts and build *)

MaxDicts == 2
MaxKeys == 2

\* the dicts of at most MaxKeys keys: (key, value) items, no key twice
Dicts ==
    {d \in UNION {[1..k -> ColumnNames \X CellValues] : k \in 0..MaxKeys} :
        \A i, j \in 1..Len(d) : d[i][1] = d[j][1] => i = j}

DictsInit ==
    /\ args \in [target_table : {<<"t">>},
                 on_columns : UNION {[1..k -> ColumnNames] : k \in 0..1},
                 row_dicts : UNION {[1..k -> Dicts] : k \in 0..MaxDicts}]
    /\ obj = None
    /\ out = NoOut

DictsConstruct ==
    /\ out = NoOut
    /\ AfterInit(from_row_dicts(args.target_table, args.on_columns, args.row_dicts))
    /\ UNCHANGED args

DictsBuild ==
    /\ obj.cls = "SafeSqlUpsertRows"
    /\ out' = build(obj)
    /\ UNCHANGED <<args, obj>>

DictsNext == DictsConstruct \/ DictsBuild

SpecDicts == DictsInit /\ [][DictsNext]_vars

\* d[key], for a key of d
Lookup(d, key) == d[CHOOSE i \in 1..Len(d) : d[i][1] = key][2]

\* C8: from_row_dicts takes the columns from the first mapping's keys, in
\* order, and in every row, whatever the insertion order of its mapping, the
\* value at position j is the value the mapping holds for column j.
C8_RowsFollowColumns ==
    (out.op = "init" /\ out.status = "ok") =>
        /\ obj.columns = Keys(args.row_dicts[1])
        /\ \A i \in 1..Len(args.row_dicts) :
              ToSet(Keys(args.row_dicts[i])) = ToSet(obj.columns) =>
                 \A j \in 1..Len(obj.columns) :
                    obj.rows[i][j] = Lookup(args.row_dicts[i], obj.columns[j])

---------------------------------------------------------------------------
(* SpecJoin: SafeSql over texts with and without whitespace around them *)

MaxJoinNodes == 4

JoinTexts == {<<>>, <<" ">>, <<"a">>, <<" ", "b", "\n">>}

JoinInit ==
    /\ args = <<>>
    /\ obj = None
    /\ out = NoOut

JoinAddStr == \E s \in JoinTexts : Extend(PyStr(s), MaxJoinNodes)

JoinAddParam == ExtendWith(SafeSqlParam_init(PyInt(1)), MaxJoinNodes)

\* an argument that is neither a builder nor a str
JoinAddOther == Extend(PyInt(123), MaxJoinNodes)

JoinCompose == Compose

JoinNest == \E k \in 0..Len(args) : Nest(k, MaxJoinNodes)

JoinBuild == BuildSafeSql

JoinNext == JoinAddStr \/ JoinAddParam \/ JoinAddOther \/ JoinCompose \/ JoinNest \/ JoinBuild

SpecJoin == JoinInit /\ [][JoinNext]_vars

SafeSqlBuilt == obj.cls = "SafeSql" /\ out.op = "build" /\ out.status = "ok"

\* the stripped text of each element of a SafeSql, in order
Contributions(self) == [i \in 1..Len(self.parts) |-> Strip(Added(self.parts[i]).sql)]

NonEmpty(texts) == {i \in 1..Len(texts) : texts[i] # <<>>}

First(indices) == CHOOSE i \in indices : \A j \in indices : i <= j

\* the texts from the first non-empty one on, a single space between neighbours
JoinedFromFirst(texts) ==
    IF NonEmpty(texts) = {} THEN <<>>
    ELSE Join(<<" ">>, SubSeq(texts, First(NonEmpty(texts)), Len(texts)))

StartsClean(s) == s # <<>> => s[1] \notin Whitespace
EndsClean(s) == s # <<>> => s[Len(s)] \notin Whitespace

\* C5 as stated: the stripped texts of the elements are joined left to right
\* with one space between neighbours and none before the first non-empty one,
\* and for every sequence of elements, empty and whitespace-only texts
\* included, the template has no leading and no trailing space.
C5_NoOuterSpace ==
    SafeSqlBuilt =>
        /\ out.sql = JoinedFromFirst(Contributions(obj))
        /\ StartsClean(out.sql)
        /\ EndsClean(out.sql)

\* C5 as amended: the same join, and no leading space; the template ends in a
\* space exactly when the last element's text is empty or whitespace-only and
\* an earlier element's is not (an empty text after the first non-empty one
\* still gets its separating space).
C5_JoinFromFirstNonEmpty ==
    SafeSqlBuilt =>
        LET texts == Contributions(obj)
        IN  /\ out.sql = JoinedFromFirst(texts)
            /\ StartsClean(out.sql)
            /\ ~EndsClean(out.sql) <=>
                  (NonEmpty(texts) # {} /\ Len(texts) \notin NonEmpty(texts))
            /\ (\A i \in 1..Len(texts) : i > First(NonEmpty(texts) \cup {Len(texts)})
                                           => texts[i] # <<>>)
                  => out.sql = Join(<<" ">>, SelectSeq(texts, LAMBDA t : t # <<>>))

C5_Witness ==
    /\ SafeSqlBuilt
    /\ Len(obj.parts) = 3
    /\ obj.parts[1] = PyStr(<<" ">>)
    /\ obj.parts[2].cls = "SafeSql"
    /\ obj.parts[3] = PyStr(<<" ", "b", "\n">>)
    /\ out.sql = <<"?", " ", "b">>

---------------------------------------------------------------------------
(* Spec: SafeSql over trusted texts and builders of every class *)

MaxNodes == 4

TrustedTexts == {<<"x", " ", "=">>, <<"'", "?", "'">>}

ParamValues == {PyInt(1), PyInt(2)}

Init ==
    /\ args = <<>>
    /\ obj = None
    /\ out = NoOut

AddStr == \E s \in TrustedTexts : Extend(PyStr(s), MaxNodes)

AddParam == \E v \in ParamValues : ExtendWith(SafeSqlParam_init(v), MaxNodes)

AddInt == ExtendWith(SafeSqlInt_init(PyInt(10)), MaxNodes)

AddWhitelisted ==
    ExtendWith(SafeSqlWhitelisted_init(
                   PyStr(<<"u">>),
                   [cls |-> "tuple", items |-> <<PyStr(<<"a">>), PyStr(<<"u">>)>>]),
               MaxNodes)

AddLikePattern ==
    ExtendWith(SafeSqlLikePattern_init(<<PyStr(<<"a", "%">>), PERCENT>>), MaxNodes)

AddUpsertRows ==
    ExtendWith(SafeSqlUpsertRows_init(<<"t">>, <<<<"a">>>>, <<<<"a">>, <<"b">>>>,
                                      <<<<PyInt(3), PyInt(4)>>, <<PyInt(5), PyInt(6)>>>>),
               MaxNodes)

NestLast == \E k \in 0..Len(args) : Nest(k, MaxNodes)

Next ==
    \/ AddStr \/ AddParam \/ AddInt \/ AddWhitelisted \/ AddLikePattern
    \/ AddUpsertRows \/ NestLast \/ Compose \/ BuildSafeSql

Spec == Init /\ [][Next]_vars

\* the template with its k-th placeholder bound to the k-th parameter: each
\* character as itself, each "?" as the parameter it stands for
Bound(sql, params) ==
    LET marks == {i \in 1..Len(sql) : sql[i] = "?"}
    IN  [i \in 1..Len(sql) |->
            IF i \in marks
            THEN [param |-> params[Cardinality({j \in marks : j <= i})]]
            ELSE [ch |-> sql[i]]]

IsSpace(e) == DOMAIN e = {"ch"} /\ e.ch \in Whitespace

RECURSIVE LStripBound(_)
LStripBound(s) == IF s # <<>> /\ IsSpace(Head(s)) THEN LStripBound(Tail(s)) ELSE s

RECURSIVE RStripBound(_)
RStripBound(s) ==
    IF s # <<>> /\ IsSpace(s[Len(s)]) THEN RStripBound(SubSeq(s, 1, Len(s) - 1)) ELSE s

\* the statement a tree of fragments stands for: every builder that is not a
\* SafeSql with its own parameters bound in its own template, every text as
\* written, and those of a SafeSql joined in order
RECURSIVE Meaning(_)
RECURSIVE MeaningOfParts(_, _)
Meaning(part) ==
    IF part.cls = "SafeSql" THEN MeaningOfParts(part.parts, Len(part.parts))
    ELSE IF IsInstanceSafeSqlBuilder(part)
    THEN LET r == Dispatch_build(part) IN Bound(r.sql, r.params)
    ELSE [i \in 1..Len(part.v) |-> [ch |-> part.v[i]]]

MeaningOfParts(parts, n) ==
    IF n = 0 THEN <<>>
    ELSE LET before == MeaningOfParts(parts, n - 1)
             added == RStripBound(LStripBound(Meaning(parts[n])))
         IN  IF before = <<>> THEN added ELSE before \o <<[ch |-> " "]>> \o added

\* no "?" in a trusted text, a whitelisted string or a table or column name
RECURSIVE NoStrayMark(_)
NoStrayMark(part) ==
    CASE part.cls = "SafeSql" ->
            \A i \in 1..Len(part.parts) : NoStrayMark(part.parts[i])
      [] part.cls = "str" -> CountOf("?", part.v) = 0
      [] part.cls = "SafeSqlWhitelisted" -> CountOf("?", part.string) = 0
      [] part.cls = "SafeSqlUpsertRows" ->
            /\ CountOf("?", part.target_table) = 0
            /\ \A i \in 1..Len(part.columns) : CountOf("?", part.columns[i]) = 0
      [] OTHER -> TRUE

\* C1 as stated: for any SafeSql of fragments and trusted texts, the template
\* has as many "?" as there are params.
C1_AsManyMarksAsParams ==
    SafeSqlBuilt => CountOf("?", out.sql) = Len(out.params)

\* C1 as amended: for any SafeSql, nested to any depth, whose trusted texts,
\* whitelisted strings and table and column names hold no "?", the template
\* has as many "?" as there are params, and the k-th "?" from the left is
\* the placeholder of params[k]: binding them in that order gives the
\* statement the tree stands for.
C1_PlaceholdersMatchParams ==
    (SafeSqlBuilt /\ NoStrayMark(obj)) =>
        /\ CountOf("?", out.sql) = Len(out.params)
        /\ Bound(out.sql, out.params) = Meaning(obj)

C1_Witness ==
    /\ SafeSqlBuilt
    /\ NoStrayMark(obj)
    /\ Len(obj.parts) = 3
    /\ obj.parts[1].cls = "SafeSqlParam"
    /\ obj.parts[2].cls = "SafeSql"
    /\ obj.parts[3].cls = "SafeSqlLikePattern"
    /\ out.params = <<PyInt(2), PyInt(1), PyStr(<<"a", "[", "%", "%">>)>>

---------------------------------------------------------------------------
(* SpecCap: build() of trees that hold about MSSQL_MAX_PARAMS parameters *)

MaxCapNodes == 4
CapColumns == 70

CapRowCounts == {1, 15, 30}

\* the column names c1, c2, ...
CapColumnName(j) == <<"c">> \o Digits(j)

CapUpsertRows(R) ==
    SafeSqlUpsertRows_init(<<"t">>, <<CapColumnName(1)>>,
                           [j \in 1..CapColumns |-> CapColumnName(j)],
                           [i \in 1..R |-> [j \in 1..CapColumns |-> PyInt(0)]])

CapInit ==
    /\ args = <<>>
    /\ obj = None
    /\ out = NoOut

CapAddParam == ExtendWith(SafeSqlParam_init(PyInt(0)), MaxCapNodes)

CapAddUpsertRows == \E R \in CapRowCounts : ExtendWith(CapUpsertRows(R), MaxCapNodes)

CapNest == \E k \in 1..Len(args) : Nest(k, MaxCapNodes)

CapCompose == Compose

CapBuild == BuildSafeSql

CapNext == CapAddParam \/ CapAddUpsertRows \/ CapNest \/ CapCompose \/ CapBuild

SpecCap == CapInit /\ [][CapNext]_vars

\* the parameters a tree holds: one per SafeSqlParam and per pattern, one per
\* cell of an upsert, none for a text, an int or a whitelisted string
RECURSIVE ParamCount(_)
RECURSIVE ParamCountOfParts(_)
ParamCount(part) ==
    CASE part.cls = "SafeSql" -> ParamCountOfParts(part.parts)
      [] part.cls \in {"SafeSqlParam", "SafeSqlLikePattern"} -> 1
      [] part.cls = "SafeSqlUpsertRows" -> Len(part.rows) * Len(part.columns)
      [] OTHER -> 0

ParamCountOfParts(parts) ==
    IF parts = <<>> THEN 0 ELSE ParamCount(Head(parts)) + ParamCountOfParts(Tail(parts))

\* C2: build() on a root raises the capacity error exactly when the tree holds
\* more than 2100 parameters, whatever its sub-fragments hold each, and
\* otherwise returns the rendered template and params as they are.
C2_CapacityAtRoot ==
    (obj.cls = "SafeSql" /\ out.op = "build") =>
        /\ out.status = "ValueError" <=> ParamCount(obj) > 2100
        /\ out.status \in {"ok", "ValueError"}
        /\ out.status = "ok" =>
              /\ out.sql = SafeSql_build(obj).sql
              /\ out.params = SafeSql_build(obj).params
              /\ Len(out.params) = ParamCount(obj)

\* 2101 parameters in all, at most 2100 in each part, each part building alone
C2_Witness ==
    /\ obj.cls = "SafeSql"
    /\ out.op = "build"
    /\ out.status = "ValueError"
    /\ ParamCount(obj) = 2101
    /\ Len(obj.parts) = 2
    /\ obj.parts[1].cls = "SafeSql"
    /\ \A i \in 1..Len(obj.parts) : build(obj.parts[i]).status = "ok"

=============================================================================
